---- MODULE Spec2Model ----
(***************************************************************************)
(* Concurrent Wa-Tor (src/concurrent/concurrent.go): the Frame loop, the   *)
(* Update step that starts one ConcurrentUpdate goroutine per tile, the    *)
(* Fish and Shark rules and SafeWrite, on a scaled-down torus; the tile     *)
(* functions GetTileStarts and TileOfX on their own; and the rules of the  *)
(* sequential program (src/sequential.go) as functions on grids.           *)
(*                                                                         *)
(* Granularity.  The grid is only read while the goroutines run, so the    *)
(* reads of the grid are folded into the step that uses them.  The buffer  *)
(* is shared and written by several goroutines: every access to it is a    *)
(* step of its own.  SafeWrite reads buffer[x][y] in one step and stores   *)
(* the three words of the square in three steps, in any order: the store   *)
(* of a 24-byte struct is not atomic in Go, and on the same-tile path it   *)
(* is not protected by a lock either.                                      *)
(***************************************************************************)
EXTENDS Integers, Sequences, FiniteSets, TLC

\* ------------------------------------------------------------- sizes
\* The torus and the number of goroutines of the specifications Spec,
\* SpecRun and SpecWriter, scaled down (the source runs 1800 x 1000 cells on
\* 8 threads).
MaxWidth == 4
MaxHeight == 1
MaxThreads == 3

\* The largest initial population of the one-step specification Spec; the
\* number of Frame calls and the largest initial population of the
\* several-step specification SpecRun.
MaxEntities == 2
MaxChronon == 2
RunEntities == 1

\* ------------------------------------------------------------- rule constants
fishBreed == 5
sharkBreed == 10
starve == 4
energyGain == 2

\* Attributes of the entities of an initial grid.
FishTimers == {0, fishBreed}
SharkTimers == {0, sharkBreed}
SharkEnergies == {1, starve}

\* ------------------------------------------------------------- state
\* grid, buffer, tileLocks, count, chronon: the package variables of the
\* source.  wg: the counter of Update's WaitGroup.  wk: the goroutines.
\* mainpc: the position of the goroutine that runs Frame.  window: the
\* types Display drew last.  calls: how many times ebiten.Run calls Frame
\* (never changed).  returned: the SafeWrite calls of the current step that
\* have returned, each with the type it read and its result (history, read
\* by no action).
\* width, height, threads: the constants and the package variable of those
\* names, fixed when the program starts.  probe: the last call of
\* GetTileStarts or TileOfX made on its own, with its result.
\* fishBefore: the number of Fish the grid held before the last
\* grid = buffer (history, read by no action).
VARIABLES grid, buffer, tileLocks, wg, wk, mainpc, count, chronon, window,
          calls, returned, width, height, threads, probe, fishBefore

\* What no step of Frame or of a goroutine changes.
config == <<width, height, threads, probe>>

vars == <<grid, buffer, tileLocks, wg, wk, mainpc, count, chronon, window,
          calls, returned, config, fishBefore>>

\* ------------------------------------------------------------- data
Xs == 0 .. (width - 1)
Ys == 0 .. (height - 1)
Workers == 0 .. (threads - 1)

square(t, e, b) == [typeId |-> t, energy |-> e, breedTimer |-> b]

ZeroSquare == square(0, 0, 0)

ZeroGrid == [x \in Xs |-> [y \in Ys |-> ZeroSquare]]

Fields == {"typeId", "energy", "breedTimer"}

tileWidth == width \div threads

\* TilePosition of a GetTileStarts whose last tile does not take the
\* remaining width % n columns.
RECURSIVE TilePosition_NoRemainder(_, _)
TilePosition_NoRemainder(i, n) ==
    IF i = 0 THEN 0 ELSE TilePosition_NoRemainder(i - 1, n) + tileWidth

\* GetTileStarts: the value of `position` when the loop stores starts[i]
\* (i < n) and after the loop (i = n); every tile adds tileWidth, the last
\* one adds width % n as well.
RECURSIVE TilePosition(_, _)
TilePosition(i, n) ==
    IF i = 0 THEN 0
    ELSE TilePosition(i - 1, n) + tileWidth
         + (IF i - 1 = n - 1 THEN width % n ELSE 0)

\* The slice of n+1 boundaries; Go's starts[i] is starts[i + 1] here.
GetTileStarts(n) == [i \in 1 .. (n + 1) |-> TilePosition(i - 1, n)]

starts == GetTileStarts(threads)

\* TileOfX with x > starts[i] for x >= starts[i].
TileOfX_Strict(x, st) ==
    LET hits == {i \in 0 .. (Len(st) - 2) : x > st[i + 1] /\ x < st[i + 2]}
    IN  IF hits # {} THEN CHOOSE i \in hits : \A j \in hits : i <= j
        ELSE Len(st) - 1

\* TileOfX: the first i with starts[i] <= x < starts[i+1], else len(starts)-1.
TileOfX(x, st) ==
    LET hits == {i \in 0 .. (Len(st) - 2) : x >= st[i + 1] /\ x < st[i + 2]}
    IN  IF hits # {} THEN CHOOSE i \in hits : \A j \in hits : i <= j
        ELSE Len(st) - 1

\* ------------------------------------------------------------- neighbours
\* leftX that stops at column 0 instead of wrapping around.
leftX_NoWrap(x) == IF x = 0 THEN 0 ELSE x - 1

leftX(x) == (x - 1 + width) % width
rightX(x) == (x + 1) % width
upY(y) == (y - 1 + height) % height
downY(y) == (y + 1) % height

\* The four neighbours in the order the source examines them.
Neighbours(x, y) ==
    << <<x, upY(y)>>, <<leftX(x), y>>, <<rightX(x), y>>, <<x, downY(y)>> >>

\* The neighbours of (x, y) whose grid cell has type t, in that order.
GatherSquares(g, x, y, t) ==
    SelectSeq(Neighbours(x, y), LAMBDA c : g[c[1]][c[2]].typeId = t)

\* GatherFreeSquares that takes the cells of Sharks for free cells.
GatherFreeSquares_Sharks(g, x, y) == GatherSquares(g, x, y, 2)

GatherFreeSquares(g, x, y) == GatherSquares(g, x, y, 0)

\* GatherFishSquares that finds no Fish.
GatherFishSquares_None(g, x, y) == <<>>

GatherFishSquares(g, x, y) == GatherSquares(g, x, y, 1)

\* ------------------------------------------------------------- goroutines
\* The state of one ConcurrentUpdate goroutine: its position in the scan
\* (x, y), the locals of the rule it runs (currentSquare, newX, newY,
\* moved, energyAfterMove), the SafeWrite call in progress (site: the
\* call's place in the rule; sx, sy, sq: its arguments; todo: the words of
\* the square still to be stored) and pc, its position:
\*   "idle"   not started          "scan"   between two cells
\*   "lock"   at tileLocks[t].Lock "read"   at existing := buffer[x][y]
\*   "write"  storing the square   "unlock" at the deferred Unlock
\*   "done"   after wg.Done
NoSite == "none"

IdleWorker ==
    [pc |-> "idle", x |-> 0, y |-> 0, currentSquare |-> ZeroSquare,
     newX |-> 0, newY |-> 0, moved |-> FALSE, energyAfterMove |-> 0,
     site |-> NoSite, sx |-> 0, sy |-> 0, sq |-> ZeroSquare, todo |-> {},
     existing |-> 0, ret |-> FALSE]

\* StartX of an Update that starts every goroutine at column 0.
StartX_FromZero(w) == 0

\* The loop bounds Update hands to goroutine w.
StartX(w) == starts[w + 1]

EndX(w) == IF starts[w + 2] > width THEN width ELSE starts[w + 2]

SpawnedWorker(w) == [IdleWorker EXCEPT !.pc = "scan", !.x = StartX(w)]

\* Accepts without its third test (a dying shark cannot clear its cell).
Accepts_NoClear(existing, incoming) ==
    \/ existing = 0
    \/ existing = 1 /\ incoming = 2

\* Accepts of a SafeWrite that writes whatever the cell holds.
Accepts_Always(existing, incoming) == TRUE

\* Accepts of a SafeWrite that also lets a Fish overwrite a Shark.
Accepts_FishOverShark(existing, incoming) ==
    \/ existing = 0
    \/ existing = 1 /\ incoming = 2
    \/ existing = 2 /\ incoming = 0
    \/ existing = 2 /\ incoming = 1

\* The arbitration of SafeWrite on the type of the existing buffer cell
\* and the type of the incoming square.
Accepts(existing, incoming) ==
    \/ existing = 0
    \/ existing = 1 /\ incoming = 2
    \/ existing = 2 /\ incoming = 0

\* NeedsLock of the lock-lower-index draft: only a write into a tile of
\* lower index is locked.
NeedsLock_LowerOnly(targetTile, workerTile) == targetTile < workerTile

\* NeedsLock of a SafeWrite that locks the target tile whatever it is.
NeedsLock_Always(targetTile, workerTile) == TRUE

\* SafeWrite takes the lock of the target tile when it is not the caller's.
NeedsLock(targetTile, workerTile) == targetTile # workerTile

\* Entering SafeWrite(x, y, sq, w, starts) from call site s.
Call(r, w, s, x, y, sq) ==
    [r EXCEPT !.site = s, !.sx = x, !.sy = y, !.sq = sq, !.todo = {},
              !.existing = 0, !.ret = FALSE,
              !.pc = IF NeedsLock(TileOfX(x, starts), w) THEN "lock" ELSE "read"]

\* The rule returns: the scan moves on to the next cell.
EndRule(r) ==
    [IdleWorker EXCEPT !.pc = "scan",
                       !.x = IF r.y + 1 < height THEN r.x ELSE r.x + 1,
                       !.y = IF r.y + 1 < height THEN r.y + 1 ELSE 0]

\* ------------------------------------------------------------- the rules
\* FishSquare with a typeId that is none of Empty, Fish and Shark.
FishSquare_OtherType(b) == square(3, 0, b)

\* The squares the rules hand to SafeWrite.
FishSquare(b) == square(1, 0, b)

SharkSquare(e, b) == square(2, e, b)

\* FishBreed of a fish that breeds whatever its timer.
FishBreed_Always(r, w) ==
    Call(r, w, "F_breedOld", r.x, r.y, FishSquare(fishBreed))

\* UpdateFish, the breeding part: a fish whose timer in the grid is <= 0
\* writes a new fish at (x, y), then the reset fish at (newX, newY).
FishBreed(r, w) ==
    IF r.currentSquare.breedTimer <= 0
    THEN Call(r, w, "F_breedOld", r.x, r.y, FishSquare(fishBreed))
    ELSE EndRule(r)

\* SharkStarveOrBreed with the breeding test before the starvation test.
SharkStarveOrBreed_BreedFirst(r, w) ==
    IF r.currentSquare.breedTimer <= 0
    THEN Call(r, w, "S_breedNew", r.newX, r.newY,
              SharkSquare(r.energyAfterMove, sharkBreed))
    ELSE IF r.energyAfterMove <= 0
         THEN Call(r, w, "S_die", r.newX, r.newY, ZeroSquare)
         ELSE EndRule(r)

\* UpdateSharks from the starvation test on: a shark whose energy is <= 0
\* writes Empty at (newX, newY) and returns; otherwise a shark whose timer
\* in the grid is <= 0 writes the reset shark at (newX, newY), then a new
\* shark at (x, y).
SharkStarveOrBreed(r, w) ==
    IF r.energyAfterMove <= 0
    THEN Call(r, w, "S_die", r.newX, r.newY, ZeroSquare)
    ELSE IF r.currentSquare.breedTimer <= 0
         THEN Call(r, w, "S_breedNew", r.newX, r.newY,
                   SharkSquare(r.energyAfterMove, sharkBreed))
         ELSE EndRule(r)

\* UpdateSharks, `if !moved`: the shark is written at (newX, newY).
SharkStay(r, w) ==
    Call(r, w, "S_stay", r.newX, r.newY,
         SharkSquare(r.energyAfterMove, r.currentSquare.breedTimer - 1))

\* AfterCall of a shark that keeps the energyGain bonus when its predation
\* write is refused.
AfterCall_BonusKept(r, w, ok) ==
    CASE r.site = "F_move" ->
            IF ok THEN FishBreed([r EXCEPT !.moved = TRUE], w)
            ELSE Call(r, w, "F_stay", r.x, r.y,
                      FishSquare(r.currentSquare.breedTimer - 1))
      [] r.site = "F_stay" ->
            FishBreed([r EXCEPT !.newX = r.x, !.newY = r.y], w)
      [] r.site = "F_stayNoFree" -> FishBreed(r, w)
      [] r.site = "F_breedOld" ->
            Call(r, w, "F_breedNew", r.newX, r.newY, FishSquare(fishBreed))
      [] r.site = "F_breedNew" -> EndRule(r)
      [] r.site = "S_eat" ->
            IF ok
            THEN SharkStarveOrBreed(
                    [r EXCEPT !.moved = TRUE,
                              !.energyAfterMove = r.energyAfterMove + energyGain], w)
            ELSE Call(r, w, "S_eatStay", r.x, r.y,
                      SharkSquare(r.energyAfterMove + energyGain,
                                  r.currentSquare.breedTimer - 1))
      [] r.site = "S_eatStay" -> SharkStay(r, w)
      [] r.site = "S_move" ->
            IF ok THEN SharkStarveOrBreed([r EXCEPT !.moved = TRUE], w)
            ELSE SharkStay([r EXCEPT !.newX = r.x, !.newY = r.y], w)
      [] r.site = "S_stay" -> SharkStarveOrBreed(r, w)
      [] r.site = "S_die" -> EndRule(r)
      [] r.site = "S_breedNew" ->
            Call(r, w, "S_breedOld", r.x, r.y, SharkSquare(starve, sharkBreed))
      [] r.site = "S_breedOld" -> EndRule(r)

\* What the rule does when the SafeWrite of call site r.site returns ok.
AfterCall(r, w, ok) ==
    CASE r.site = "F_move" ->
            IF ok THEN FishBreed([r EXCEPT !.moved = TRUE], w)
            ELSE Call(r, w, "F_stay", r.x, r.y,
                      FishSquare(r.currentSquare.breedTimer - 1))
      [] r.site = "F_stay" ->
            FishBreed([r EXCEPT !.newX = r.x, !.newY = r.y], w)
      [] r.site = "F_stayNoFree" -> FishBreed(r, w)
      [] r.site = "F_breedOld" ->
            Call(r, w, "F_breedNew", r.newX, r.newY, FishSquare(fishBreed))
      [] r.site = "F_breedNew" -> EndRule(r)
      [] r.site = "S_eat" ->
            IF ok
            THEN SharkStarveOrBreed(
                    [r EXCEPT !.moved = TRUE,
                              !.energyAfterMove = r.energyAfterMove + energyGain], w)
            ELSE Call(r, w, "S_eatStay", r.x, r.y,
                      SharkSquare(r.energyAfterMove, r.currentSquare.breedTimer - 1))
      [] r.site = "S_eatStay" -> SharkStay(r, w)
      [] r.site = "S_move" ->
            IF ok THEN SharkStarveOrBreed([r EXCEPT !.moved = TRUE], w)
            ELSE SharkStay([r EXCEPT !.newX = r.x, !.newY = r.y], w)
      [] r.site = "S_stay" -> SharkStarveOrBreed(r, w)
      [] r.site = "S_die" -> EndRule(r)
      [] r.site = "S_breedNew" ->
            Call(r, w, "S_breedOld", r.x, r.y, SharkSquare(starve, sharkBreed))
      [] r.site = "S_breedOld" -> EndRule(r)

\* UpdateFish up to its first SafeWrite, for the fish at (r.x, r.y); pick
\* is the value of rand.IntN (from 1 here).
StartFish(r, w, g, pick) ==
    LET cur == g[r.x][r.y]
        freeSquares == GatherFreeSquares(g, r.x, r.y)
        r0 == [r EXCEPT !.currentSquare = cur, !.newX = r.x, !.newY = r.y,
                        !.moved = FALSE]
    IN  IF Len(freeSquares) > 0
        THEN Call([r0 EXCEPT !.newX = freeSquares[pick][1],
                             !.newY = freeSquares[pick][2]],
                  w, "F_move", freeSquares[pick][1], freeSquares[pick][2],
                  FishSquare(cur.breedTimer - 1))
        ELSE Call(r0, w, "F_stayNoFree", r.x, r.y, FishSquare(cur.breedTimer - 1))

\* UpdateSharks up to its first SafeWrite, for the shark at (r.x, r.y).
StartShark(r, w, g, pick) ==
    LET cur == g[r.x][r.y]
        freeSquares == GatherFreeSquares(g, r.x, r.y)
        fishSquares == GatherFishSquares(g, r.x, r.y)
        r0 == [r EXCEPT !.currentSquare = cur, !.newX = r.x, !.newY = r.y,
                        !.moved = FALSE, !.energyAfterMove = cur.energy - 1]
    IN  IF Len(fishSquares) > 0
        THEN Call([r0 EXCEPT !.newX = fishSquares[pick][1],
                             !.newY = fishSquares[pick][2]],
                  w, "S_eat", fishSquares[pick][1], fishSquares[pick][2],
                  SharkSquare(cur.energy - 1 + energyGain, cur.breedTimer - 1))
        ELSE IF Len(freeSquares) > 0
        THEN Call([r0 EXCEPT !.newX = freeSquares[pick][1],
                             !.newY = freeSquares[pick][2]],
                  w, "S_move", freeSquares[pick][1], freeSquares[pick][2],
                  SharkSquare(cur.energy - 1, cur.breedTimer - 1))
        ELSE SharkStay(r0, w)

\* The number of values rand.IntN can return for the entity at (x, y).
Choices(g, x, y) ==
    LET nFish == Len(GatherFishSquares(g, x, y))
        nFree == Len(GatherFreeSquares(g, x, y))
    IN  IF g[x][y].typeId = 2 /\ nFish > 0 THEN nFish
        ELSE IF nFree > 0 THEN nFree ELSE 1

\* ------------------------------------------------------------- initial state
Cells == Xs \X Ys

\* The number of Fish of grid g.
FishCount(g) == Cardinality({c \in Cells : g[c[1]][c[2]].typeId = 1})

EntitySquares ==
    {FishSquare(b) : b \in FishTimers}
    \cup {SharkSquare(e, b) : e \in SharkEnergies, b \in SharkTimers}

\* The grid with the entities a[c] on the cells c of P, Empty elsewhere.
Populated(P, a) ==
    [x \in Xs |-> [y \in Ys |-> IF <<x, y>> \in P THEN a[<<x, y>>] ELSE ZeroSquare]]

NoHolder == -1

\* No call of GetTileStarts or TileOfX on its own has been made.
NoProbe == [op |-> "none"]

\* The grids that hold at most n entities.
InitGrids(n) ==
    UNION {{Populated(P, a) : a \in [P -> EntitySquares]} :
           P \in {Q \in SUBSET Cells : Cardinality(Q) <= n}}

\* The state when ebiten.Run starts calling Frame, for a run of c calls
\* of a program built with width W, height H and threads T, from a grid
\* of G.
InitFrom(W, H, T, G, c) ==
    /\ width = W
    /\ height = H
    /\ threads = T
    /\ probe = NoProbe
    /\ grid \in G
    /\ calls = c
    /\ buffer = ZeroGrid
    /\ tileLocks = [t \in Workers |-> NoHolder]
    /\ wg = 0
    /\ wk = [w \in Workers |-> IdleWorker]
    /\ mainpc = "idle"
    /\ count = 0
    /\ chronon = 0
    /\ window = [x \in Xs |-> [y \in Ys |-> 0]]
    /\ returned = {}
    /\ fishBefore = FishCount(grid)

\* InitFrom a grid of at most n entities.
InitWith(W, H, T, n, c) == InitFrom(W, H, T, InitGrids(n), c)

\* One step from every grid of at most MaxEntities entities.
Init == InitWith(MaxWidth, MaxHeight, MaxThreads, MaxEntities, 1)

\* MaxChronon steps from every grid of at most RunEntities entities.
InitRun == InitWith(MaxWidth, MaxHeight, MaxThreads, RunEntities, MaxChronon)

\* ------------------------------------------------------------- Frame, Update
\* Frame up to wg.Wait: count and chronon are incremented, count is 1, so
\* Update runs its loop, which starts one goroutine per tile.
Frame_Update ==
    /\ mainpc = "idle"
    /\ chronon < calls
    /\ count' = count + 1
    /\ chronon' = chronon + 1
    /\ IF count' = 1
       THEN /\ wk' = [w \in Workers |-> SpawnedWorker(w)]
            /\ wg' = threads
            /\ mainpc' = "wait"
       ELSE /\ mainpc' = "display"
            /\ UNCHANGED <<wk, wg>>
    /\ returned' = {}
    /\ UNCHANGED <<config, fishBefore, grid, buffer, tileLocks, window, calls>>

\* Update without wg.Wait.
WaitReturns_NoWait == TRUE

\* wg.Wait returns when the counter is zero.
WaitReturns == wg = 0

\* wg.Wait returns and grid = buffer copies the array.
Update_Swap ==
    /\ mainpc = "wait"
    /\ WaitReturns
    /\ grid' = buffer
    /\ fishBefore' = FishCount(grid)
    /\ mainpc' = "clear"
    /\ UNCHANGED <<config, buffer, tileLocks, wg, wk, count, chronon, window, calls, returned>>

\* Update_Clear without the reset of the buffer.
Update_Clear_NoReset ==
    /\ mainpc = "clear"
    /\ count' = 0
    /\ mainpc' = "display"
    /\ UNCHANGED <<config, fishBefore, grid, buffer, tileLocks, wg, wk, chronon, window, calls,
                   returned>>

\* Update_Clear if grid = buffer had made the grid an alias of the buffer.
Update_Clear_Aliased ==
    /\ mainpc = "clear"
    /\ buffer' = ZeroGrid
    /\ grid' = ZeroGrid
    /\ count' = 0
    /\ mainpc' = "display"
    /\ UNCHANGED <<config, fishBefore, tileLocks, wg, wk, chronon, window, calls, returned>>

\* buffer = [width][height]square{}; Update returns and Frame resets count.
Update_Clear ==
    /\ mainpc = "clear"
    /\ buffer' = ZeroGrid
    /\ count' = 0
    /\ mainpc' = "display"
    /\ UNCHANGED <<config, fishBefore, grid, tileLocks, wg, wk, chronon, window, calls, returned>>

\* Frame with Update started as a goroutine: Display does not wait for it.
DisplayStarts_Early == mainpc \in {"wait", "clear", "display"}

\* Frame calls Display once Update has returned.
DisplayStarts == mainpc = "display"

\* The rest of Frame: Display unless ebiten skips the drawing, and the
\* reset of chronon at 1000.
Frame_Display ==
    /\ DisplayStarts
    /\ \E skipped \in BOOLEAN :
         window' = IF skipped THEN window
                   ELSE [x \in Xs |-> [y \in Ys |-> grid[x][y].typeId]]
    /\ chronon' = IF chronon = 1000 THEN 0 ELSE chronon
    /\ mainpc' = "idle"
    /\ UNCHANGED <<config, fishBefore, grid, buffer, tileLocks, wg, wk, count, calls, returned>>

\* ------------------------------------------------------------- ConcurrentUpdate
\* The scan position after the Empty cells from (x, y) on are passed:
\* the next occupied cell of the tile, or x = endX.
RECURSIVE SkipEmpty(_, _, _, _)
SkipEmpty(g, x, y, endX) ==
    IF x >= endX \/ g[x][y].typeId # 0 THEN <<x, y>>
    ELSE IF y + 1 < height THEN SkipEmpty(g, x, y + 1, endX)
         ELSE SkipEmpty(g, x + 1, 0, endX)

\* The loops reach the next Fish or Shark of the tile, and its rule runs up
\* to its first SafeWrite.
ConcurrentUpdate_Rule(w) ==
    /\ wk[w].pc = "scan"
    /\ LET pos == SkipEmpty(grid, wk[w].x, wk[w].y, EndX(w))
           r == [wk[w] EXCEPT !.x = pos[1], !.y = pos[2]]
       IN  /\ pos[1] < EndX(w)
           /\ \E pick \in 1 .. Choices(grid, pos[1], pos[2]) :
                wk' = [wk EXCEPT ![w] =
                         IF grid[pos[1]][pos[2]].typeId = 1
                         THEN StartFish(r, w, grid, pick)
                         ELSE StartShark(r, w, grid, pick)]
    /\ UNCHANGED <<config, fishBefore, grid, buffer, tileLocks, wg, mainpc, count, chronon, window,
                   calls, returned>>

\* ConcurrentUpdate_Done without the deferred wg.Done.
ConcurrentUpdate_Done_NoSignal(w) ==
    /\ wk[w].pc = "scan"
    /\ SkipEmpty(grid, wk[w].x, wk[w].y, EndX(w))[1] >= EndX(w)
    /\ wk' = [wk EXCEPT ![w] = [IdleWorker EXCEPT !.pc = "done"]]
    /\ UNCHANGED <<config, fishBefore, grid, buffer, tileLocks, wg, mainpc, count, chronon, window,
                   calls, returned>>

\* The loops end: the deferred wg.Done runs.
ConcurrentUpdate_Done(w) ==
    /\ wk[w].pc = "scan"
    /\ SkipEmpty(grid, wk[w].x, wk[w].y, EndX(w))[1] >= EndX(w)
    /\ wk' = [wk EXCEPT ![w] = [IdleWorker EXCEPT !.pc = "done"]]
    /\ wg' = wg - 1
    /\ UNCHANGED <<config, fishBefore, grid, buffer, tileLocks, mainpc, count, chronon, window,
                   calls, returned>>

\* ------------------------------------------------------------- SafeWrite
\* The tile of the cell the SafeWrite of goroutine w writes.
TargetTile(w) == TileOfX(wk[w].sx, starts)

\* The history entry of the call of goroutine w, made by the rule of the
\* entity of cell (ox, oy), which read a cell of type existing and
\* returns ok.
Returned(w, existing, ok) ==
    [worker |-> w, x |-> wk[w].sx, y |-> wk[w].sy, sq |-> wk[w].sq,
     site |-> wk[w].site, existing |-> existing, ok |-> ok,
     ox |-> wk[w].x, oy |-> wk[w].y]

\* tileLocks[targetTile].Lock()
SafeWrite_Lock(w) ==
    /\ wk[w].pc = "lock"
    /\ tileLocks[TargetTile(w)] = NoHolder
    /\ tileLocks' = [tileLocks EXCEPT ![TargetTile(w)] = w]
    /\ wk' = [wk EXCEPT ![w].pc = "read"]
    /\ UNCHANGED <<config, fishBefore, grid, buffer, wg, mainpc, count, chronon, window, calls, returned>>

\* existing := buffer[x][y] and the three tests on it.  An accepted call
\* goes on to store the square; a rejected one returns false, through the
\* deferred Unlock on the cross-tile path.
SafeWrite_Read(w) ==
    /\ wk[w].pc = "read"
    /\ LET r == wk[w]
           existing == buffer[r.sx][r.sy]
       IN  IF Accepts(existing.typeId, r.sq.typeId)
           THEN /\ wk' = [wk EXCEPT ![w] = [r EXCEPT !.pc = "write",
                                                    !.todo = Fields,
                                                    !.existing = existing.typeId]]
                /\ UNCHANGED returned
           ELSE IF NeedsLock(TargetTile(w), w)
           THEN /\ wk' = [wk EXCEPT ![w] = [r EXCEPT !.pc = "unlock",
                                                    !.existing = existing.typeId,
                                                    !.ret = FALSE]]
                /\ UNCHANGED returned
           ELSE /\ wk' = [wk EXCEPT ![w] = AfterCall(r, w, FALSE)]
                /\ returned' = returned \cup {Returned(w, existing.typeId, FALSE)}
    /\ UNCHANGED <<config, fishBefore, grid, buffer, tileLocks, wg, mainpc, count, chronon, window,
                   calls>>

\* SafeWrite_Store writing in place, into the grid (as the sequential
\* version does).
SafeWrite_Store_InPlace(w, f) ==
    /\ wk[w].pc = "write"
    /\ f \in wk[w].todo
    /\ LET r == wk[w]
           left == r.todo \ {f}
       IN  /\ grid' = [grid EXCEPT ![r.sx][r.sy][f] = r.sq[f]]
           /\ IF left # {}
              THEN /\ wk' = [wk EXCEPT ![w].todo = left]
                   /\ UNCHANGED returned
              ELSE IF NeedsLock(TargetTile(w), w)
              THEN /\ wk' = [wk EXCEPT ![w] = [r EXCEPT !.pc = "unlock",
                                                       !.todo = {}, !.ret = TRUE]]
                   /\ UNCHANGED returned
              ELSE /\ wk' = [wk EXCEPT ![w] = AfterCall(r, w, TRUE)]
                   /\ returned' = returned \cup {Returned(w, r.existing, TRUE)}
    /\ UNCHANGED <<config, fishBefore, buffer, tileLocks, wg, mainpc, count, chronon, window, calls>>

\* buffer[x][y] = square, one word of the square per step.  After the last
\* word the call returns true, through the deferred Unlock on the
\* cross-tile path.
SafeWrite_Store(w, f) ==
    /\ wk[w].pc = "write"
    /\ f \in wk[w].todo
    /\ LET r == wk[w]
           left == r.todo \ {f}
       IN  /\ buffer' = [buffer EXCEPT ![r.sx][r.sy][f] = r.sq[f]]
           /\ IF left # {}
              THEN /\ wk' = [wk EXCEPT ![w].todo = left]
                   /\ UNCHANGED returned
              ELSE IF NeedsLock(TargetTile(w), w)
              THEN /\ wk' = [wk EXCEPT ![w] = [r EXCEPT !.pc = "unlock",
                                                       !.todo = {}, !.ret = TRUE]]
                   /\ UNCHANGED returned
              ELSE /\ wk' = [wk EXCEPT ![w] = AfterCall(r, w, TRUE)]
                   /\ returned' = returned \cup {Returned(w, r.existing, TRUE)}
    /\ UNCHANGED <<config, fishBefore, grid, tileLocks, wg, mainpc, count, chronon, window, calls>>

\* SafeWrite_Unlock without the Unlock: the call returns with the lock held.
SafeWrite_Unlock_Missing(w) ==
    /\ wk[w].pc = "unlock"
    /\ wk' = [wk EXCEPT ![w] = AfterCall(wk[w], w, wk[w].ret)]
    /\ returned' = returned \cup {Returned(w, wk[w].existing, wk[w].ret)}
    /\ UNCHANGED <<config, fishBefore, grid, buffer, tileLocks, wg, mainpc, count, chronon, window,
                   calls>>

\* The deferred tileLocks[targetTile].Unlock(); SafeWrite returns and the
\* rule goes on.
SafeWrite_Unlock(w) ==
    /\ wk[w].pc = "unlock"
    /\ tileLocks' = [tileLocks EXCEPT ![TargetTile(w)] = NoHolder]
    /\ wk' = [wk EXCEPT ![w] = AfterCall(wk[w], w, wk[w].ret)]
    /\ returned' = returned \cup {Returned(w, wk[w].existing, wk[w].ret)}
    /\ UNCHANGED <<config, fishBefore, grid, buffer, wg, mainpc, count, chronon, window, calls>>

\* ------------------------------------------------------------- specification
\* A step of the goroutine that runs Frame.
MainStep ==
    \/ Frame_Update
    \/ Update_Swap
    \/ Update_Clear
    \/ Frame_Display

\* A step of the ConcurrentUpdate goroutine of tile w.
WorkerStep(w) ==
    \/ ConcurrentUpdate_Rule(w)
    \/ ConcurrentUpdate_Done(w)
    \/ SafeWrite_Lock(w)
    \/ SafeWrite_Read(w)
    \/ \E f \in Fields : SafeWrite_Store(w, f)
    \/ SafeWrite_Unlock(w)

Next == MainStep \/ \E w \in Workers : WorkerStep(w)

Spec == Init /\ [][Next]_vars

SpecRun == InitRun /\ [][Next]_vars

\* The Go scheduler keeps running goroutines while one can run.  (Fairness
\* to each goroutine, which the preemptive scheduler also gives, implies it.)
Fairness == WF_vars(Next)

FairSpec == Init /\ [][Next]_vars /\ Fairness

\* ------------------------------------------------------------- SafeWrite alone
\* The last call of a rule with an incoming square of type t: when it
\* returns, the rule returns.
LastSite(t) == IF t = 0 THEN "S_die" ELSE IF t = 1 THEN "F_breedNew" ELSE "S_breedOld"

\* One goroutine enters SafeWrite(x, y, incoming, w, starts) with any
\* existing square in buffer[x][y]; the other goroutines have not moved.
InitWriter ==
    /\ width = MaxWidth
    /\ height = MaxHeight
    /\ threads = MaxThreads
    /\ probe = NoProbe
    /\ grid = ZeroGrid
    /\ calls = 1
    /\ tileLocks = [t \in Workers |-> NoHolder]
    /\ wg = threads
    /\ mainpc = "wait"
    /\ count = 1
    /\ chronon = 1
    /\ window = [x \in Xs |-> [y \in Ys |-> 0]]
    /\ returned = {}
    /\ fishBefore = FishCount(grid)
    /\ \E w \in Workers, c \in Cells :
         \E existing, incoming \in EntitySquares \cup {ZeroSquare} :
            /\ buffer = [ZeroGrid EXCEPT ![c[1]][c[2]] = existing]
            /\ wk = [v \in Workers |->
                       IF v = w
                       THEN Call(SpawnedWorker(w), w, LastSite(incoming.typeId),
                                 c[1], c[2], incoming)
                       ELSE SpawnedWorker(v)]

NextWriter ==
    \E w \in Workers :
        \/ SafeWrite_Lock(w)
        \/ SafeWrite_Read(w)
        \/ \E f \in Fields : SafeWrite_Store(w, f)
        \/ SafeWrite_Unlock(w)

SpecWriter == InitWriter /\ [][NextWriter]_vars

\* ------------------------------------------------------------- the tiles alone
\* The package is initialised with any width of 1 .. TilesWidth and any
\* threads of 1 .. TilesThreads, and Frame is never called.
TilesWidth == 6
TilesThreads == 4

InitTiles ==
    \E W \in 1 .. TilesWidth, T \in 1 .. TilesThreads : InitWith(W, MaxHeight, T, 0, 0)

\* var starts = GetTileStarts(threads)
Probe_GetTileStarts ==
    /\ probe' = [op |-> "GetTileStarts", n |-> threads, starts |-> GetTileStarts(threads)]
    /\ UNCHANGED <<grid, buffer, tileLocks, wg, wk, mainpc, count, chronon, window,
                   calls, returned, width, height, threads, fishBefore>>

\* TileOfX(x, starts), for a column or for an x past the last column.
Probe_TileOfX(x) ==
    /\ probe' = [op |-> "TileOfX", x |-> x, tile |-> TileOfX(x, starts)]
    /\ UNCHANGED <<grid, buffer, tileLocks, wg, wk, mainpc, count, chronon, window,
                   calls, returned, width, height, threads, fishBefore>>

NextTiles ==
    \/ Probe_GetTileStarts
    \/ \E x \in 0 .. (TilesWidth + 1) : Probe_TileOfX(x)

SpecTiles == InitTiles /\ [][NextTiles]_vars

\* ------------------------------------------------------------- the neighbours alone
\* The package is built with any width and height of 1 .. GatherSide, the
\* grid holds at most GatherEntities entities, and the gather functions
\* are called for any cell; Frame is never called.
GatherSide == 3
GatherEntities == 2

InitGather ==
    \E W \in 1 .. GatherSide, H \in 1 .. GatherSide : InitWith(W, H, 1, GatherEntities, 0)

\* freeSquares := GatherFreeSquares(x, y)
Probe_GatherFreeSquares(x, y) ==
    /\ probe' = [op |-> "GatherFreeSquares", x |-> x, y |-> y,
                 squares |-> GatherFreeSquares(grid, x, y)]
    /\ UNCHANGED <<grid, buffer, tileLocks, wg, wk, mainpc, count, chronon, window,
                   calls, returned, width, height, threads, fishBefore>>

\* fishSquares := GatherFishSquares(x, y)
Probe_GatherFishSquares(x, y) ==
    /\ probe' = [op |-> "GatherFishSquares", x |-> x, y |-> y,
                 squares |-> GatherFishSquares(grid, x, y)]
    /\ UNCHANGED <<grid, buffer, tileLocks, wg, wk, mainpc, count, chronon, window,
                   calls, returned, width, height, threads, fishBefore>>

NextGather ==
    \E c \in Cells :
        \/ Probe_GatherFreeSquares(c[1], c[2])
        \/ Probe_GatherFishSquares(c[1], c[2])

SpecGather == InitGather /\ [][NextGather]_vars

\* ------------------------------------------------------------- one tile
\* One step from every grid of at most OneTileEntities entities when
\* threads is 1, and of at most RunEntities entities with more threads.
OneTileEntities == 3

InitThreads ==
    \E T \in 1 .. MaxThreads :
        InitWith(MaxWidth, MaxHeight, T, IF T = 1 THEN OneTileEntities ELSE RunEntities, 1)

SpecThreads == InitThreads /\ [][Next]_vars

\* ------------------------------------------------------------- one fish
\* One step on the square torus of side ScenarioSide whose only entity
\* is a Fish at (1, 1), with any breedTimer of 0 .. fishBreed and any
\* threads of 1 .. MaxThreads.
ScenarioSide == 3

OneFishGrid(b) == Populated({<<1, 1>>}, [c \in {<<1, 1>>} |-> FishSquare(b)])

InitOneFish ==
    \E T \in 1 .. MaxThreads, b \in 0 .. fishBreed :
        InitFrom(ScenarioSide, ScenarioSide, T, {OneFishGrid(b)}, 1)

SpecOneFish == InitOneFish /\ [][Next]_vars

\* ------------------------------------------------------------- one fish, several steps
\* The one-fish scenario over several steps: a Fish that starts with a
\* breedTimer b of 0 .. BreedStart is given b + BreedSteps calls of Frame,
\* which takes it two steps past the step in which its timer is 0.
BreedStart == 1
BreedSteps == 2

InitBreed ==
    \E T \in 1 .. MaxThreads, b \in 0 .. BreedStart :
        InitFrom(ScenarioSide, ScenarioSide, T, {OneFishGrid(b)}, b + BreedSteps)

SpecBreed == InitBreed /\ [][Next]_vars

\* ------------------------------------------------------------- two sharks, one fish
\* One step on the grid of MaxWidth columns whose entities are a Fish at
\* (1, 0) between a Shark at (0, 0) and a Shark at (2, 0), with any
\* attributes of an initial grid and any threads of 1 .. MaxThreads (with
\* MaxThreads tiles the three entities are scanned by three goroutines).
ContestCells == {<<0, 0>>, <<1, 0>>, <<2, 0>>}

ContestGrids ==
    {Populated(ContestCells, a) :
        a \in {b \in [ContestCells -> EntitySquares] :
                  /\ b[<<0, 0>>].typeId = 2
                  /\ b[<<1, 0>>].typeId = 1
                  /\ b[<<2, 0>>].typeId = 2}}

InitContest ==
    \E T \in 1 .. MaxThreads :
        InitFrom(MaxWidth, MaxHeight, T, ContestGrids, 1)

SpecContest == InitContest /\ [][Next]_vars

\* ------------------------------------------------------------- two fish, one shark
\* One step on the grid of MaxWidth columns whose entities are a Shark at
\* (1, 0) between a Fish at (0, 0) and a Fish at (2, 0), which have the
\* same single free neighbour (3, 0), with any attributes of an initial
\* grid and any threads of 1 .. MaxThreads.
RivalCells == {<<0, 0>>, <<1, 0>>, <<2, 0>>}

RivalGrids ==
    {Populated(RivalCells, a) :
        a \in {b \in [RivalCells -> EntitySquares] :
                  /\ b[<<0, 0>>].typeId = 1
                  /\ b[<<1, 0>>].typeId = 2
                  /\ b[<<2, 0>>].typeId = 1}}

InitRivals ==
    \E T \in 1 .. MaxThreads :
        InitFrom(MaxWidth, MaxHeight, T, RivalGrids, 1)

SpecRivals == InitRivals /\ [][Next]_vars

\* ------------------------------------------------------------- the lock-lower-index draft
\* The tiling and the locking of the earlier draft (src/unnamed/part_001),
\* on their own: the package is built with any width of 1 .. DraftWidth
\* and any threads of 1 .. DraftThreads (at most width, so that tileWidth
\* is not 0), and whichTile and safeWrite are called, safeWrite by a rule
\* for a cell of the goroutine's scan range, on that cell's column or on
\* the column to its left or right.
DraftWidth == 8
DraftThreads == 4

InitDraft ==
    \E W \in 1 .. DraftWidth, T \in 1 .. DraftThreads :
        T <= W /\ InitWith(W, MaxHeight, T, 0, 0)

\* func whichTile(x int) int { return x / tileWidth }
whichTile(x) == x \div tileWidth

\* var tileLocks = make([]sync.Mutex, threads-1): its indices.
DraftLocks == 0 .. (threads - 2)

\* update: startX := worker * tileWidth; endX := startX + tileWidth, and
\* width for the last worker.
DraftStartX(worker) == worker * tileWidth

DraftEndX(worker) ==
    IF worker = threads - 1 THEN width ELSE DraftStartX(worker) + tileWidth

\* The draft's safeWrite takes no lock.
NoLock == -1

\* safeWrite: the index into tileLocks it uses for a write on column x by
\* goroutine workerTile: none for its own tile, workerTile for a tile of
\* higher index, targetTile for a tile of lower index.
safeWrite(x, workerTile) ==
    LET targetTile == whichTile(x)
    IN  IF targetTile = workerTile THEN NoLock
        ELSE IF targetTile > workerTile THEN workerTile
        ELSE targetTile

Probe_whichTile(x) ==
    /\ probe' = [op |-> "whichTile", x |-> x, tile |-> whichTile(x)]
    /\ UNCHANGED <<grid, buffer, tileLocks, wg, wk, mainpc, count, chronon, window,
                   calls, returned, width, height, threads, fishBefore>>

Probe_safeWrite(worker, cx, x) ==
    /\ DraftStartX(worker) <= cx /\ cx < DraftEndX(worker)
    /\ x \in {cx, leftX(cx), rightX(cx)}
    /\ probe' = [op |-> "safeWrite", x |-> x, worker |-> worker,
                 lock |-> safeWrite(x, worker)]
    /\ UNCHANGED <<grid, buffer, tileLocks, wg, wk, mainpc, count, chronon, window,
                   calls, returned, width, height, threads, fishBefore>>

NextDraft ==
    \/ \E x \in Xs : Probe_whichTile(x)
    \/ \E worker \in Workers, cx \in Xs, x \in Xs : Probe_safeWrite(worker, cx, x)

SpecDraft == InitDraft /\ [][NextDraft]_vars

\* ------------------------------------------------------------- sequential.go
\* buffer[x][y].f = v
SetField(b, x, y, f, v) == [b EXCEPT ![x][y][f] = v]

\* The element rand.IntN picks from a non-empty list when it returns
\* (p - 1) % len.
Picked(list, p) == list[((p - 1) % Len(list)) + 1]

\* updateFish(x, y) on buffer b, the fish being grid g's; p resolves
\* rand.IntN.
updateFish(g, b, x, y, p) ==
    IF b[x][y].typeId = 2 THEN b
    ELSE
    LET freeSquares == GatherFreeSquares(g, x, y)
        new == IF Len(freeSquares) > 0 THEN Picked(freeSquares, p) ELSE <<x, y>>
        at == IF Len(freeSquares) > 0 /\ b[new[1]][new[2]].typeId = 0
              THEN new ELSE <<x, y>>
        b1 == SetField(SetField(b, at[1], at[2], "typeId", 1),
                       at[1], at[2], "breedTimer", g[x][y].breedTimer - 1)
    IN  IF b1[new[1]][new[2]].breedTimer <= 0
        THEN SetField(SetField(SetField(b1, x, y, "typeId", 1),
                               x, y, "breedTimer", fishBreed),
                      new[1], new[2], "breedTimer", fishBreed)
        ELSE b1

\* The three assignments that write the shark of grid g's (x, y), with
\* energy e, to (nx, ny).
PutShark(g, b, x, y, nx, ny, e) ==
    SetField(SetField(SetField(b, nx, ny, "typeId", 2),
                      nx, ny, "energy", e),
             nx, ny, "breedTimer", g[x][y].breedTimer - 1)

\* updateSharks(x, y); p resolves the first rand.IntN and q the one of
\* the branch that looks for a free square when the fish is taken.
updateSharks(g, b, x, y, p, q) ==
    LET freeSquares == GatherFreeSquares(g, x, y)
        fishSquares == GatherFishSquares(g, x, y)
        e == g[x][y].energy - 1
        toFish == IF Len(fishSquares) > 0 THEN Picked(fishSquares, p) ELSE <<x, y>>
        eats == Len(fishSquares) > 0 /\ b[toFish[1]][toFish[2]].typeId # 2
        new == IF eats THEN toFish
               ELSE IF Len(fishSquares) > 0
                    THEN IF Len(freeSquares) > 0 THEN Picked(freeSquares, q) ELSE <<x, y>>
                    ELSE IF Len(freeSquares) > 0 THEN Picked(freeSquares, p) ELSE <<x, y>>
        b1 == PutShark(g, b, x, y, new[1], new[2], IF eats THEN e + energyGain ELSE e)
    IN  IF b1[new[1]][new[2]].energy <= 0
        THEN SetField(SetField(b1, new[1], new[2], "typeId", 0),
                      new[1], new[2], "energy", 0)
        ELSE IF b1[new[1]][new[2]].breedTimer <= 0
        THEN SetField(SetField(SetField(SetField(b1, x, y, "typeId", 2),
                                        x, y, "energy", starve),
                               x, y, "breedTimer", sharkBreed),
                      new[1], new[2], "breedTimer", sharkBreed)
        ELSE b1

\* update's loops from cell number k on (x outer, y inner); p and q give
\* every cell its resolution of rand.IntN.  The result is what grid =
\* buffer assigns.
RECURSIVE update(_, _, _, _, _)
update(g, b, k, p, q) ==
    IF k >= width * height THEN b
    ELSE LET x == k \div height
             y == k % height
             c == <<x, y>>
         IN  update(g,
                    IF g[x][y].typeId = 1 THEN updateFish(g, b, x, y, p[c])
                    ELSE IF g[x][y].typeId = 2 THEN updateSharks(g, b, x, y, p[c], q[c])
                    ELSE b,
                    k + 1, p, q)

\* ------------------------------------------------------------- RunConcurrent
\* The program starts with any width of 1 .. RunWidth, any height of
\* 1 .. RunHeight, any threads of 1 .. RunThreads, any numFish of
\* 0 .. RunFish and any numShark of 0 .. RunShark; ebiten.Run calls
\* Frame once.
RunWidth == 3
RunHeight == 2
RunThreads == 2
RunFish == 2
RunShark == 1

\* Before RunConcurrent: the package variables have their initial values.
InitStart ==
    \E W \in 1 .. RunWidth, H \in 1 .. RunHeight, T \in 1 .. RunThreads :
        /\ width = W
        /\ height = H
        /\ threads = T
        /\ probe = NoProbe
        /\ grid = ZeroGrid
        /\ calls = 1
        /\ buffer = ZeroGrid
        /\ tileLocks = [t \in Workers |-> NoHolder]
        /\ wg = 0
        /\ wk = [w \in Workers |-> IdleWorker]
        /\ mainpc = "start"
        /\ count = 0
        /\ chronon = 0
        /\ window = [x \in Xs |-> [y \in Ys |-> 0]]
        /\ returned = {}
        /\ fishBefore = FishCount(grid)

\* coords after the two loops that append [2]int{x, y}: x outer, y inner.
Coords == [i \in 1 .. (width * height) |-> <<(i - 1) \div height, (i - 1) % height>>]

\* What rand.Shuffle can make of coords: its swaps reach every order.
Shuffles ==
    {[i \in 1 .. Len(Coords) |-> Coords[p[i]]] : p \in Permutations(1 .. Len(Coords))}

\* The first index of the loop that places the sharks, were it to start
\* at 0 like the loop of the fish.
SharkLoopStart_Zero(nFish) == 0

\* for i := numFish; ...
SharkLoopStart(nFish) == nFish

\* The loop `for i := from; i < to; i++` that writes the fields of sq to
\* grid[coords[i]]; ok is false when coords[i] is an index out of range,
\* which panics.
RECURSIVE Place(_, _, _, _, _)
Place(g, coords, i, to, sq) ==
    IF i >= to THEN [grid |-> g, ok |-> TRUE]
    ELSE IF i >= Len(coords) THEN [grid |-> g, ok |-> FALSE]
    ELSE LET c == coords[i + 1]
             g1 == SetField(g, c[1], c[2], "typeId", sq.typeId)
             g2 == SetField(g1, c[1], c[2], "breedTimer", sq.breedTimer)
             g3 == IF sq.typeId = 2 THEN SetField(g2, c[1], c[2], "energy", sq.energy) ELSE g2
         IN  Place(g3, coords, i + 1, to, sq)

\* RunConcurrent up to ebiten.Run: the grid is filled, or the program
\* panics on coords[i].
RunConcurrent_Init ==
    /\ mainpc = "start"
    /\ \E nFish \in 0 .. RunFish, nShark \in 0 .. RunShark, coords \in Shuffles :
         LET fish == Place(grid, coords, 0, nFish, FishSquare(fishBreed))
             all == IF fish.ok
                    THEN Place(fish.grid, coords, SharkLoopStart(nFish), nFish + nShark,
                               SharkSquare(starve, sharkBreed))
                    ELSE fish
         IN  /\ grid' = all.grid
             /\ mainpc' = IF all.ok THEN "idle" ELSE "panic"
             /\ probe' = [op |-> "RunConcurrent", numFish |-> nFish, numShark |-> nShark]
    /\ UNCHANGED <<fishBefore, buffer, tileLocks, wg, wk, count, chronon, window, calls, returned,
                   width, height, threads>>

NextStart == RunConcurrent_Init \/ Next

SpecStart == InitStart /\ [][NextStart]_vars

\* ------------------------------------------------------------- properties
NoShark(g) == \A c \in Cells : g[c[1]][c[2]].typeId # 2

\* C1: within one step on a grid without sharks, a same-tile (unlocked)
\* SafeWrite and a SafeWrite of another goroutine on the same cell, both
\* with an incoming Fish and both finding the cell Empty, do not both
\* return true.
C1_AtMostOneFishAccepted ==
    (mainpc = "wait" /\ NoShark(grid)) =>
        \A a, b \in returned :
            ~ ( /\ a.worker # b.worker
                /\ a.x = b.x /\ a.y = b.y
                /\ TileOfX(a.x, starts) = a.worker
                /\ a.sq.typeId = 1 /\ b.sq.typeId = 1
                /\ a.existing = 0 /\ b.existing = 0
                /\ a.ok /\ b.ok )

\* C2: on a grid without sharks the grid that Update installs holds at
\* least as many Fish as the grid it replaces.
C2_NoFishLost ==
    [][(mainpc = "wait" /\ mainpc' = "clear" /\ NoShark(grid))
         => FishCount(grid') >= FishCount(grid)]_vars

\* The (existing, incoming) pairs of types the arbitration table accepts.
AcceptedPairs == {<<0, 0>>, <<0, 1>>, <<0, 2>>, <<1, 2>>, <<2, 0>>}

\* C3, the result: a call that has returned returned true exactly for the
\* five accepted pairs, and then the cell holds the whole incoming square.
C3_Outcome ==
    \A e \in returned :
        /\ e.ok <=> (<<e.existing, e.sq.typeId>> \in AcceptedPairs)
        /\ e.ok => buffer[e.x][e.y] = e.sq

\* C3, the effect: a step changes the buffer only at the cell (x, y) of a
\* call that read an accepted pair; a rejected call changes nothing.
C3_Effect ==
    \A c \in Cells :
        buffer'[c[1]][c[2]] # buffer[c[1]][c[2]] =>
            \E w \in Workers :
                /\ wk[w].pc = "write"
                /\ <<wk[w].sx, wk[w].sy>> = c
                /\ <<wk[w].existing, wk[w].sq.typeId>> \in AcceptedPairs

\* C3: SafeWrite alone, on the same-tile and on the cross-tile path, for
\* every pair of an existing and an incoming square: it returns true and
\* replaces the cell by the incoming square for the pairs (Empty, any),
\* (Fish, Shark), (Shark, Empty); otherwise it returns false and changes
\* nothing; no other cell is modified.
C3_Arbitration == [](C3_Outcome) /\ [][C3_Effect]_vars

\* C3 witness: a cross-tile call replaced a Fish by a Shark.
C3_Witness ==
    \E e \in returned :
        /\ e.ok /\ e.existing = 1 /\ e.sq.typeId = 2
        /\ TileOfX(e.x, starts) # e.worker
        /\ buffer[e.x][e.y] = e.sq

\* C4: a goroutine past the Lock of a cross-tile SafeWrite holds the lock
\* of the target tile until the deferred Unlock; a lock is held only by a
\* goroutine inside a SafeWrite on that tile, which is never its own; a
\* same-tile SafeWrite holds no lock.
C4_LockDiscipline ==
    \A w \in Workers :
        /\ (wk[w].pc \in {"read", "write", "unlock"} /\ TargetTile(w) # w)
              => tileLocks[TargetTile(w)] = w
        /\ wk[w].pc \in {"lock", "unlock"} => TargetTile(w) # w
        /\ \A t \in Workers :
              tileLocks[t] = w =>
                 /\ wk[w].pc \in {"read", "write", "unlock"}
                 /\ t = TargetTile(w)
                 /\ t # w

\* C4 witness: a rejected cross-tile call is at its deferred Unlock, still
\* holding the target tile's lock, while the owner of that tile is inside
\* a same-tile SafeWrite.
C4_Witness ==
    \E w, v \in Workers :
        /\ wk[w].pc = "unlock" /\ ~wk[w].ret
        /\ tileLocks[TargetTile(w)] = w
        /\ v = TargetTile(w)
        /\ wk[v].pc \in {"read", "write"} /\ TargetTile(v) = v

\* Goroutine w waits at Lock for a lock that is held.
Blocked(w) == wk[w].pc = "lock" /\ tileLocks[TargetTile(w)] # NoHolder

Unfinished(w) == wk[w].pc \notin {"idle", "done"}

\* C5: no goroutine holds two locks, none waits for a lock while holding
\* one, and while a goroutine is unfinished some unfinished goroutine is
\* not blocked.
C5_NoDeadlock ==
    /\ \A w \in Workers :
          /\ Cardinality({t \in Workers : tileLocks[t] = w}) <= 1
          /\ wk[w].pc = "lock" => \A t \in Workers : tileLocks[t] # w
    /\ (\E w \in Workers : Unfinished(w))
          => \E w \in Workers : Unfinished(w) /\ ~Blocked(w)

\* C5 witness: a goroutine waits for a lock another goroutine holds.
C5_Witness ==
    \E w, v \in Workers :
        w # v /\ wk[w].pc = "lock" /\ tileLocks[TargetTile(w)] = v

AllDone == \A w \in Workers : wk[w].pc = "done"

\* C6: under fair scheduling every Update that has started its goroutines
\* returns: all goroutines have finished, the grid has been replaced and
\* the buffer cleared.
C6_UpdateTerminates ==
    (mainpc = "wait") ~> (mainpc = "display" /\ AllDone /\ wg = 0 /\ buffer = ZeroGrid)

\* C6 witness: an Update in which goroutines wrote and waited for each
\* other has returned.
C6_Witness ==
    /\ mainpc = "display"
    /\ \E e \in returned : ~e.ok /\ TileOfX(e.x, starts) # e.worker

\* C7: the grid is replaced only when every goroutine of the step has
\* finished, and from the replacement to the end of the Frame call no
\* goroutine is running.
C7_SwapAfterBarrier ==
    /\ [](mainpc \in {"clear", "display"} => AllDone /\ wg = 0)
    /\ [][(grid' # grid \/ (mainpc = "wait" /\ mainpc' = "clear")) => AllDone]_vars

\* C7 witness: the grid was replaced by a buffer the goroutines wrote.
C7_Witness == mainpc = "clear" /\ grid = buffer /\ grid # ZeroGrid /\ returned # {}

\* C8: while a goroutine of the step is unfinished the grid does not
\* change.
C8_GridFrozen ==
    [][(mainpc = "wait" /\ \E w \in Workers : Unfinished(w)) => grid' = grid]_vars

\* C8 witness: goroutines are running and have written the buffer.
C8_Witness ==
    /\ mainpc = "wait"
    /\ \E w \in Workers : wk[w].pc = "write"
    /\ buffer # ZeroGrid
    /\ buffer # grid

\* The types of the cells of grid g, as Display draws them.
Drawn(g) == [x \in Xs |-> [y \in Ys |-> g[x][y].typeId]]

\* C9: Display runs only after Update has returned (no goroutine running,
\* grid replaced, buffer cleared), and what it draws is the grid of that
\* moment.
C9_DisplayAfterUpdate ==
    [][window' # window =>
          /\ mainpc = "display"
          /\ AllDone /\ wg = 0
          /\ \A t \in Workers : tileLocks[t] = NoHolder
          /\ buffer = ZeroGrid
          /\ window' = Drawn(grid)]_vars

\* C9 witness: the second Frame call has drawn a grid in which something
\* moved.
C9_Witness ==
    /\ mainpc = "idle" /\ chronon = 2
    /\ window = Drawn(grid) /\ grid # ZeroGrid

\* C10: whenever Update begins, every cell of the buffer is Empty with
\* energy 0 and breedTimer 0.
C10_BufferZeroAtUpdate ==
    [][(mainpc = "idle" /\ mainpc' = "wait") =>
          \A c \in Cells : buffer[c[1]][c[2]] = square(0, 0, 0)]_vars

\* C10 witness: a second Update has begun, after a first one that wrote
\* entities into the buffer.
C10_Witness ==
    /\ mainpc = "wait" /\ chronon = 2
    /\ grid # ZeroGrid /\ buffer = ZeroGrid

\* ------------------------------------------------------------- grid copy
\* C11: once the last goroutine has finished the buffer no longer changes
\* until the grid has received it; the grid receives every cell of it, and
\* the clearing of the buffer that follows leaves the grid as it is.
C11_GridIsCopy ==
    /\ [][(mainpc = "wait" /\ AllDone) =>
            /\ mainpc' = "clear"
            /\ buffer' = buffer
            /\ \A c \in Cells : grid'[c[1]][c[2]] = buffer[c[1]][c[2]]]_vars
    /\ [][mainpc = "clear" => (grid' = grid /\ buffer' = ZeroGrid)]_vars

\* C11 witness: the buffer has been cleared and the grid still holds what
\* the goroutines wrote.
C11_Witness ==
    /\ mainpc = "display" /\ buffer = ZeroGrid
    /\ \E e \in returned : e.ok /\ e.sq.typeId # 0 /\ grid[e.x][e.y] = e.sq

\* ------------------------------------------------------------- one tile and sequential.go
\* The calls in which a rule uses the square rand.IntN picked.
FirstSites == {"F_move", "S_eat", "S_move"}

\* The index rand.IntN returned (plus one) in the rule the goroutines ran
\* for the entity of cell c, read from the call that used it: 1 when the
\* rule picked nothing.
ConcurrentPick(c) ==
    LET fish == GatherFishSquares(grid, c[1], c[2])
        list == IF grid[c[1]][c[2]].typeId = 2 /\ Len(fish) > 0 THEN fish
                ELSE GatherFreeSquares(grid, c[1], c[2])
        es == {e \in returned : e.ox = c[1] /\ e.oy = c[2] /\ e.site \in FirstSites}
    IN  IF es = {} THEN 1
        ELSE LET e == CHOOSE d \in es : TRUE
             IN  CHOOSE i \in 1 .. Len(list) : list[i] = <<e.x, e.y>>

\* Grids a and b hold the same entities with the same attributes on the
\* same cells (the attributes of an Empty cell are read by no rule).
SameEntities(a, b) ==
    \A c \in Cells :
        /\ a[c[1]][c[2]].typeId = b[c[1]][c[2]].typeId
        /\ a[c[1]][c[2]].typeId # 0 => a[c[1]][c[2]] = b[c[1]][c[2]]

\* C12: with one tile, what the goroutine leaves in the buffer for the
\* next grid holds the entities that sequential.go's update computes from
\* the same grid with the same picks (its second pick, which the
\* concurrent rule does not make, resolved in some way).
C12_OneTileIsSequential ==
    (threads = 1 /\ mainpc = "wait" /\ AllDone) =>
        \E q \in [Cells -> 1 .. 4] :
            SameEntities(buffer,
                         update(grid, ZeroGrid, 0, [c \in Cells |-> ConcurrentPick(c)], q))

\* C13: with one tile no goroutine is ever at, or past, the Lock of a
\* SafeWrite, no tile lock is ever held, and every SafeWrite that returned
\* wrote to the caller's own tile.
C13_OneTileNoLock ==
    threads = 1 =>
        /\ \A w \in Workers : wk[w].pc \notin {"lock", "unlock"}
        /\ \A t \in Workers : tileLocks[t] = NoHolder
        /\ \A e \in returned : TileOfX(e.x, starts) = e.worker

\* C13 witness: with one tile the step has finished after SafeWrite calls
\* to three different columns, one of them refused.
C13_Witness ==
    /\ threads = 1 /\ mainpc = "wait" /\ AllDone
    /\ Cardinality({e.x : e \in returned}) >= 3
    /\ \E e \in returned : ~e.ok

C15_TileOfColumn ==
    (probe.op = "TileOfX" /\ probe.x \in Xs) =>
        LET i == probe.tile
        IN  /\ i \in 0 .. (threads - 1)
            /\ i \in DOMAIN tileLocks
            /\ starts[i + 1] <= probe.x /\ probe.x < starts[i + 2]
            /\ \A j \in 0 .. (threads - 1) :
                 (starts[j + 1] <= probe.x /\ probe.x < starts[j + 2]) => j = i
            /\ StartX(i) <= probe.x /\ probe.x < EndX(i)

\* C15 witness: TileOfX was called for a column of a tile that is neither
\* the first nor the last.
C15_Witness ==
    /\ probe.op = "TileOfX" /\ probe.x \in Xs
    /\ probe.tile > 0 /\ probe.tile < threads - 1

\* C16: for an x at or past the last boundary TileOfX returns threads - 1,
\* the index of the last tile and of its lock.
C16_PastLastBoundary ==
    (probe.op = "TileOfX" /\ probe.x >= starts[threads + 1]) =>
        /\ probe.tile = threads - 1
        /\ probe.tile \in DOMAIN tileLocks

\* ------------------------------------------------------------- scenarios
\* The cells of grid g that hold a Fish.
FishCells(g) == {c \in Cells : g[c[1]][c[2]].typeId = 1}

\* C17: when the only entity is a Fish at (1, 1) with breedTimer 1, the
\* step ends with exactly two Fish for the next grid, at (1, 1) and at one
\* of its four neighbours, both with breedTimer fishBreed.
C17_FishTimerOneBreeds ==
    (mainpc = "wait" /\ AllDone /\ grid = OneFishGrid(1)) =>
        /\ Cardinality(FishCells(buffer)) = 2
        /\ <<1, 1>> \in FishCells(buffer)
        /\ \E i \in 1 .. 4 : Neighbours(1, 1)[i] \in FishCells(buffer)
        /\ \A c \in FishCells(buffer) : buffer[c[1]][c[2]].breedTimer = fishBreed

\* The Sharks of the grid that start the step with energy 1 and no Fish
\* next to them.
StarvingSharks ==
    {c \in Cells : /\ grid[c[1]][c[2]].typeId = 2
                   /\ grid[c[1]][c[2]].energy = 1
                   /\ Len(GatherFishSquares(grid, c[1], c[2])) = 0}

\* The accepted calls that moved the entity of cell c.
Moves(c) ==
    {e \in returned : e.ox = c[1] /\ e.oy = c[2] /\ e.ok /\ e.site \in FirstSites}

\* C18: when the step ends, the cell of a Shark that started it with
\* energy 1 and no adjacent Fish is Empty for the next grid (so it holds
\* neither the Shark nor an offspring), and the cell the Shark moved to
\* does not hold the square the Shark wrote there.
C18_StarvedSharkGone ==
    (mainpc = "wait" /\ AllDone) =>
        \A c \in StarvingSharks :
            /\ buffer[c[1]][c[2]].typeId = 0
            /\ \A e \in Moves(c) : buffer[e.x][e.y] # e.sq

\* C19: when the step ends, the cell onto which a Shark with exactly one
\* adjacent Fish moved to eat it holds, for the next grid, a Shark whose
\* energy is the energy the Shark started with, minus 1, plus energyGain.
C19_PredationEnergy ==
    (mainpc = "wait" /\ AllDone) =>
        \A e \in returned :
            (/\ e.site = "S_eat" /\ e.ok
             /\ Len(GatherFishSquares(grid, e.ox, e.oy)) = 1) =>
                /\ buffer[e.x][e.y].typeId = 2
                /\ buffer[e.x][e.y].energy = grid[e.ox][e.oy].energy - 1 + energyGain

\* C20: no Shark cell of the grid has energy 0 or less.
C20_NoSharkWithoutEnergy ==
    \A c \in Cells : grid[c[1]][c[2]].typeId = 2 => grid[c[1]][c[2]].energy >= 1

\* ------------------------------------------------------------- predation
\* The cells of grid g that hold a Shark.
SharkCells(g) == {c \in Cells : g[c[1]][c[2]].typeId = 2}

\* The grid holds exactly one Shark and exactly one Fish, the Fish is next
\* to the Shark and its breedTimer is above 0.
OneSharkOneFish ==
    /\ Cardinality(SharkCells(grid)) = 1
    /\ Cardinality(FishCells(grid)) = 1
    /\ \A c \in SharkCells(grid), f \in FishCells(grid) :
         /\ \E i \in 1 .. 4 : Neighbours(c[1], c[2])[i] = f
         /\ grid[f[1]][f[2]].breedTimer > 0

\* C21: when the grid holds one Shark and one Fish next to it that does
\* not breed, and the Shark's write onto the Fish was accepted (it gained
\* energyGain), the step ends with no Fish for the next grid.
C21_EatenFishRemoved ==
    (/\ mainpc = "wait" /\ AllDone
     /\ OneSharkOneFish
     /\ \E e \in returned : e.site = "S_eat" /\ e.ok) =>
        FishCells(buffer) = {}

\* ------------------------------------------------------------- accepted writes
\* The calls that return true in this step of the model, each with an
\* earlier call of the same Update, to the same cell, that returned true
\* with another square.
Rewrites ==
    {<<d, e>> \in returned \X (returned' \ returned) :
        d.ok /\ e.ok /\ d.x = e.x /\ d.y = e.y /\ d.sq # e.sq}

TypeCount(g, t) == Cardinality({c \in Cells : g[c[1]][c[2]].typeId = t})

\* C23: every cell of the grid is Empty (0), Fish (1) or Shark (2), and
\* the numbers of Empty, Fish and Shark cells add up to width * height.
C23_ThreeTypes ==
    /\ \A c \in Cells : grid[c[1]][c[2]].typeId \in {0, 1, 2}
    /\ TypeCount(grid, 0) + TypeCount(grid, 1) + TypeCount(grid, 2) = width * height

\* C23 witness: a step in which two calls wrote one cell at the same time
\* has ended, and the grid it produced holds an entity.
C23_Witness ==
    /\ mainpc = "display"
    /\ \E d, e \in returned :
         /\ d.worker # e.worker /\ d.x = e.x /\ d.y = e.y
         /\ d.ok /\ e.ok /\ d.existing = 0 /\ e.existing = 0
         /\ d.sq.typeId # 0 /\ e.sq.typeId # 0
    /\ TypeCount(grid, 0) < width * height

\* ------------------------------------------------------------- neighbours
\* The four cells next to (x, y) on the torus.
Around(x, y) ==
    {<<(x - 1) % width, y>>, <<(x + 1) % width, y>>,
     <<x, (y - 1) % height>>, <<x, (y + 1) % height>>}

\* The coordinates a gather function returned.
Gathered == {probe.squares[i] : i \in 1 .. Len(probe.squares)}

\* C24: GatherFreeSquares(x, y) returns the cells among the four toroidal
\* neighbours of (x, y) that are Empty in the grid, GatherFishSquares(x, y)
\* those that hold a Fish, and nothing else; what they return lies inside
\* the grid; the neighbours of (0, 0) include (width-1, 0) and
\* (0, height-1), those of (width-1, height-1) include (0, height-1) and
\* (width-1, 0).
C24_ToroidalNeighbours ==
    probe.op \in {"GatherFreeSquares", "GatherFishSquares"} =>
        LET t == IF probe.op = "GatherFreeSquares" THEN 0 ELSE 1
            x == probe.x
            y == probe.y
        IN  /\ Gathered = {c \in Around(x, y) : grid[c[1]][c[2]].typeId = t}
            /\ Gathered \subseteq (0 .. (width - 1)) \X (0 .. (height - 1))
            /\ Len(probe.squares) <= 4
            /\ (x = 0 /\ y = 0) =>
                 {<<width - 1, 0>>, <<0, height - 1>>} \subseteq Around(x, y)
            /\ (x = width - 1 /\ y = height - 1) =>
                 {<<0, height - 1>>, <<width - 1, 0>>} \subseteq Around(x, y)
            /\ (x = 0 /\ grid[width - 1][y].typeId = t) => <<width - 1, y>> \in Gathered
            /\ (y = 0 /\ grid[x][height - 1].typeId = t) => <<x, height - 1>> \in Gathered
            /\ (x = width - 1 /\ grid[0][y].typeId = t) => <<0, y>> \in Gathered
            /\ (y = height - 1 /\ grid[x][0].typeId = t) => <<x, 0>> \in Gathered

\* C24 witness: on a torus of three columns and three rows
\* GatherFishSquares(0, 0) returned (width-1, 0) and (0, height-1), across
\* both edges.
C24_Witness ==
    /\ probe.op = "GatherFishSquares" /\ probe.x = 0 /\ probe.y = 0
    /\ width >= 3 /\ height >= 3
    /\ Gathered = {<<width - 1, 0>>, <<0, height - 1>>}

\* ------------------------------------------------------------- initialisation
\* C25: when numFish + numShark <= width * height, after RunConcurrent has
\* filled the grid, whatever the shuffle, exactly numFish cells hold a
\* Fish, each with breedTimer fishBreed, exactly numShark cells hold a
\* Shark, each with breedTimer sharkBreed and energy starve, and every
\* other cell is the zero square.
C25_InitialGrid ==
    (/\ probe.op = "RunConcurrent"
     /\ probe.numFish + probe.numShark <= width * height
     /\ chronon = 0) =>
        /\ mainpc = "idle"
        /\ TypeCount(grid, 1) = probe.numFish
        /\ TypeCount(grid, 2) = probe.numShark
        /\ \A c \in Cells :
             grid[c[1]][c[2]] \in {square(0, 0, 0), square(1, 0, fishBreed),
                                   square(2, starve, sharkBreed)}

\* C25 witness: the grid was filled with fish and a shark and with a cell
\* left Empty, in an order that is not the order of the loops.
C25_Witness ==
    /\ probe.op = "RunConcurrent" /\ chronon = 0 /\ mainpc = "idle"
    /\ probe.numFish = 2 /\ probe.numShark = 1
    /\ TypeCount(grid, 0) > 0
    /\ grid[0][0].typeId = 0

\* C26: when numFish + numShark > width * height, RunConcurrent ends by
\* reporting a configuration error, and no step runs.
C26_ConfigurationError ==
    (/\ probe.op = "RunConcurrent"
     /\ probe.numFish + probe.numShark > width * height) =>
        /\ mainpc = "error"
        /\ chronon = 0

\* ------------------------------------------------------------- breeding
\* The calls of SafeWrite on the cell (x, y) that were made for an entity
\* other than the one of cell o.
OtherWriters(x, y, o) ==
    {d \in returned : d.x = x /\ d.y = y /\ <<d.ox, d.oy>> # o}

\* C27: when the step ends, the cell to which a Fish with breedTimer 0 or
\* less in the grid moved, and which no other entity wrote, holds for the
\* next grid a Fish with breedTimer fishBreed.
C27_MovedFishTimerReset ==
    (mainpc = "wait" /\ AllDone) =>
        \A e \in returned :
            (/\ e.site = "F_move" /\ e.ok
             /\ grid[e.ox][e.oy].breedTimer <= 0
             /\ OtherWriters(e.x, e.y, <<e.ox, e.oy>>) = {}) =>
                buffer[e.x][e.y] = FishSquare(fishBreed)

\* The Fish of cell c moved: its first write, on a free neighbour, was
\* accepted.
FishMoved(c) ==
    \E e \in returned : e.site = "F_move" /\ e.ok /\ <<e.ox, e.oy>> = c

\* A Shark called SafeWrite on cell c.
SharkWrote(c) ==
    \E d \in returned : /\ d.x = c[1] /\ d.y = c[2]
                        /\ grid[d.ox][d.oy].typeId = 2

\* The cells on which a write of the entity of cell c was accepted.
CellsWrittenBy(c) ==
    {<<e.x, e.y>> : e \in {d \in returned : d.ok /\ <<d.ox, d.oy>> = c}}

C29_NoBreedingTwiceRunning ==
    (mainpc = "wait" /\ AllDone) =>
        ~(fishBefore < FishCount(grid) /\ FishCount(grid) < FishCount(buffer))

\* C30: when the step ends, the cell to which a Shark with breedTimer 0
\* or less in the grid moved with energy left, and which no other entity
\* wrote, holds for the next grid a Shark with breedTimer sharkBreed and
\* the energy the Shark has after the move.
C30_MovedSharkTimerReset ==
    (mainpc = "wait" /\ AllDone) =>
        \A e \in returned :
            (/\ e.site \in {"S_eat", "S_move"} /\ e.ok
             /\ grid[e.ox][e.oy].breedTimer <= 0
             /\ e.sq.energy > 0
             /\ OtherWriters(e.x, e.y, <<e.ox, e.oy>>) = {}) =>
                buffer[e.x][e.y] = SharkSquare(e.sq.energy, sharkBreed)

\* ------------------------------------------------------------- shark offspring
\* The accepted first writes (predation or move) of the Shark of cell c.
SharkMoves(c) ==
    {e \in returned : /\ <<e.ox, e.oy>> = c /\ e.ok
                      /\ e.site \in {"S_eat", "S_move"}}

\* The energy the Shark of cell c has after the step: the energy of its
\* accepted move, or its energy in the grid minus 1 when it stayed.
EnergyAfter(c) ==
    IF SharkMoves(c) # {}
    THEN (CHOOSE e \in SharkMoves(c) : TRUE).sq.energy
    ELSE grid[c[1]][c[2]].energy - 1

\* C31: when the step ends, the cell of a Shark with breedTimer 0 or less
\* in the grid that moved and has energy left holds for the next grid a
\* Shark with energy starve and breedTimer sharkBreed; a Shark without
\* energy left has made no breeding write, and the cell it moved from
\* holds no Shark.
C31_SharkOffspringAtOrigin ==
    (mainpc = "wait" /\ AllDone) =>
        \A c \in SharkCells(grid) :
            /\ (/\ grid[c[1]][c[2]].breedTimer <= 0
                /\ SharkMoves(c) # {}
                /\ EnergyAfter(c) > 0) =>
                    buffer[c[1]][c[2]] = SharkSquare(starve, sharkBreed)
            /\ EnergyAfter(c) <= 0 =>
                    /\ \A d \in returned :
                          <<d.ox, d.oy>> = c => d.site \notin {"S_breedNew", "S_breedOld"}
                    /\ SharkMoves(c) # {} => buffer[c[1]][c[2]].typeId # 2

\* A Shark with breedTimer 0 moved with energy left and left a new Shark,
\* and a Shark with breedTimer 0 moved, starved and left none.
C31_Witness ==
    /\ mainpc = "wait" /\ AllDone
    /\ \E c \in SharkCells(grid), d \in SharkCells(grid) :
         /\ grid[c[1]][c[2]].breedTimer <= 0 /\ SharkMoves(c) # {}
         /\ EnergyAfter(c) > 0
         /\ buffer[c[1]][c[2]] = SharkSquare(starve, sharkBreed)
         /\ grid[d[1]][d[2]].breedTimer <= 0 /\ SharkMoves(d) # {}
         /\ EnergyAfter(d) <= 0
         /\ buffer[d[1]][d[2]].typeId = 0

\* ------------------------------------------------------------- refused predation
\* The refused predation writes of the step.
RefusedPredations == {e \in returned : e.site = "S_eat" /\ ~e.ok}

\* C32: when the step ends, the cell of a Shark with energy E above 1 and
\* breedTimer B whose predation write was refused holds for the next grid
\* a Shark with energy E - 1 and breedTimer B - 1.
C32_RefusedPredationStays ==
    (mainpc = "wait" /\ AllDone) =>
        \A e \in RefusedPredations :
            grid[e.ox][e.oy].energy > 1 =>
                buffer[e.ox][e.oy] =
                    SharkSquare(grid[e.ox][e.oy].energy - 1,
                                grid[e.ox][e.oy].breedTimer - 1)

\* A predation write was refused and the Shark, with energy above 1, is
\* written at its cell without the bonus.
C32_Witness ==
    /\ mainpc = "wait" /\ AllDone
    /\ \E e \in RefusedPredations :
         /\ grid[e.ox][e.oy].energy > 1
         /\ buffer[e.ox][e.oy].typeId = 2
         /\ buffer[e.ox][e.oy].energy = grid[e.ox][e.oy].energy - 1

\* ------------------------------------------------------------- starvation
\* C33: when the step ends, every accepted Empty write of a starving
\* Shark is on a cell on which a write of that same Shark was accepted
\* before, and every cell onto which a Shark moved to eat, with energy
\* left, holds a Shark for the next grid.
C33_StarvationClearsOwnCell ==
    (mainpc = "wait" /\ AllDone) =>
        /\ \A e \in returned :
              (e.site = "S_die" /\ e.ok) =>
                  \E d \in returned :
                      /\ <<d.ox, d.oy>> = <<e.ox, e.oy>>
                      /\ d.x = e.x /\ d.y = e.y
                      /\ d.ok /\ d.sq.typeId = 2
        /\ \A e \in returned :
              (e.site = "S_eat" /\ e.ok /\ e.sq.energy > 0) =>
                  buffer[e.x][e.y].typeId = 2

\* ------------------------------------------------------------- contested fish
\* C34: when the step ends, every Shark the next grid holds on a cell that
\* is a Fish in the grid has the energy of a Shark next to that cell in
\* the grid, minus 1, plus energyGain, and no Shark whose predation write
\* was refused has had a later Shark write accepted on the contested cell.
C34_OnlyTheEaterOnFishCell ==
    (mainpc = "wait" /\ AllDone) =>
        /\ \A c \in FishCells(grid) :
              buffer[c[1]][c[2]].typeId = 2 =>
                  \E i \in 1 .. 4 :
                      LET n == Neighbours(c[1], c[2])[i]
                      IN  /\ grid[n[1]][n[2]].typeId = 2
                          /\ buffer[c[1]][c[2]].energy =
                                 grid[n[1]][n[2]].energy - 1 + energyGain
        /\ \A e \in RefusedPredations :
              ~ \E d \in returned :
                    /\ <<d.ox, d.oy>> = <<e.ox, e.oy>>
                    /\ d.x = e.x /\ d.y = e.y
                    /\ d.ok /\ d.sq.typeId = 2

\* ------------------------------------------------------------- fallback writes
\* The fallback writes of the Fish whose move was refused.
FishFallbacks == {e \in returned : e.site = "F_stay"}

SharkFallbacks ==
    {e \in returned : /\ e.site \in {"S_eatStay", "S_stay"}
                      /\ <<e.x, e.y>> = <<e.ox, e.oy>>}

\* C36: during a step, every stay-put write of a Shark on its own cell is
\* accepted, and every call of SafeWrite on a cell that holds a Shark in
\* the grid is made for that Shark.
C36_SharkFallbackAccepted ==
    mainpc = "wait" =>
        /\ \A e \in SharkFallbacks : e.ok /\ e.existing = 0
        /\ \A e \in returned :
              grid[e.x][e.y].typeId = 2 => <<e.ox, e.oy>> = <<e.x, e.y>>

\* A Shark without a Fish or an Empty cell next to it was written on its
\* cell, and a Shark whose move was refused was written on its cell.
C36_Witness ==
    /\ mainpc = "wait"
    /\ \E e \in SharkFallbacks :
          /\ e.ok
          /\ ~ \E m \in returned : <<m.ox, m.oy>> = <<e.ox, e.oy>> /\ m.site \in FirstSites
    /\ \E e \in SharkFallbacks, m \in returned :
          /\ e.ok
          /\ <<m.ox, m.oy>> = <<e.ox, e.oy>> /\ m.site = "S_move" /\ ~m.ok

\* ------------------------------------------------------------- shark targets
\* A cell next to c holds a Fish in the grid.
FishNextTo(c) ==
    \E i \in 1 .. 4 :
        LET n == Neighbours(c[1], c[2])[i] IN grid[n[1]][n[2]].typeId = 1

\* C37: during a step, every call of SafeWrite made for a Shark that has
\* a Fish next to it in the grid is on the Shark's own cell or on a cell
\* that holds a Fish in the grid, and none is a move to an Empty cell;
\* when the step ends the Shark whose predation write was refused is on
\* its own cell in the buffer; every move to an Empty cell is made for a
\* Shark with no Fish next to it.
C37_FishBeforeEmpty ==
    mainpc = "wait" =>
        \A e \in returned :
            grid[e.ox][e.oy].typeId = 2 =>
                /\ FishNextTo(<<e.ox, e.oy>>) =>
                      /\ e.site # "S_move"
                      /\ \/ <<e.x, e.y>> = <<e.ox, e.oy>>
                         \/ grid[e.x][e.y].typeId = 1
                /\ (e.site = "S_eat" /\ ~e.ok /\ AllDone) =>
                      buffer[e.ox][e.oy].typeId = 2
                /\ e.site = "S_move" =>
                      /\ ~FishNextTo(<<e.ox, e.oy>>)
                      /\ grid[e.x][e.y].typeId = 0

\* A Shark with a Fish and an Empty cell next to it had its predation
\* write refused, made no move to the Empty cell and is on its own cell
\* when the step ends.
C37_Witness ==
    /\ mainpc = "wait" /\ AllDone
    /\ \E e \in RefusedPredations :
          /\ Len(GatherFreeSquares(grid, e.ox, e.oy)) > 0
          /\ buffer[e.ox][e.oy].typeId = 2
          /\ \A d \in returned : <<d.ox, d.oy>> = <<e.ox, e.oy>> => d.site # "S_move"

\* ------------------------------------------------------------- scan ranges
\* The goroutines whose scan range holds column x.
Scanners(x) == {w \in Workers : StartX(w) <= x /\ x < EndX(w)}

\* The calls of SafeWrite made by the rule invoked on cell c.
CallsFor(c) == {e \in returned : <<e.ox, e.oy>> = c}

\* C38: every column is in the scan range of exactly one goroutine; during
\* a step every call of SafeWrite is made by a rule invoked on an occupied
\* cell, by the goroutine whose range holds the cell's column; and when the
\* step ends the rule has been invoked on every occupied cell once: it
\* has made calls, from one goroutine and from no call site twice.
C38_OneRulePerOccupiedCell ==
    /\ \A x \in Xs : Cardinality(Scanners(x)) = 1
    /\ mainpc = "wait" =>
          /\ \A e \in returned :
                /\ grid[e.ox][e.oy].typeId # 0
                /\ Scanners(e.ox) = {e.worker}
          /\ AllDone =>
                \A c \in Cells :
                    grid[c[1]][c[2]].typeId # 0 =>
                        /\ CallsFor(c) # {}
                        /\ \A d, e \in CallsFor(c) :
                              d.site = e.site => d = e

\* A step on MaxThreads tiles has ended and the rule of an entity in the
\* last column, which the last tile takes as the remainder of the
\* division, was invoked by the last goroutine.
C38_Witness ==
    /\ mainpc = "wait" /\ AllDone
    /\ threads = MaxThreads
    /\ width % threads # 0
    /\ \E e \in returned : e.ox = width - 1 /\ e.worker = threads - 1

\* ------------------------------------------------------------- the draft's tiles
\* C39: in the lock-lower-index draft, whichTile returns a tile of
\* 0 .. threads-1 for every column, and every index safeWrite uses into
\* tileLocks is one of its threads-1 indices.
C39_DraftIndicesInRange ==
    /\ probe.op = "whichTile" => probe.tile \in 0 .. (threads - 1)
    /\ (probe.op = "safeWrite" /\ probe.lock # NoLock) => probe.lock \in DraftLocks
====
